---- MODULE Spec2Model ----
(***************************************************************************)
(* Playback synchronisation and chunk buffering of the match viewer:       *)
(*   MatchDataService  (ui/src/app/match/services/match.data.service.ts)   *)
(*   MatchPlayService  (ui/src/app/match/services/match.play.service.ts)   *)
(*   MatchPlayComponent (ui/src/app/match/services/match.service.ts)       *)
(* Times are integer milliseconds.  A sample is represented by its         *)
(* timestamp; cursors (currentCoordIdx) are 0-based as in the source, so   *)
(* the sample at cursor i of a sequence s is s[i + 1].                     *)
(***************************************************************************)
EXTENDS Integers, Sequences, FiniteSets, TLC

\* ---------------------------------------------------------------- bounds
\* longest track drawn for the lookup specification
MaxLen == 3
\* sample timestamps and query times of the lookup specification
SampleTimes == {0, 1000, 61001, 62000}
QueryTimes == {0, 500, 1000, 60001, 60501, 61001, 130000}

\* the one player of the match roster (match.players)
PlayerIds == {1}

\* the match served to the session: MaxChunks chunks of 70 s, two samples each
MaxChunks == 3
Metadata == [chunk_count |-> MaxChunks, chunk_duration_ms |-> 70000,
             total_duration_ms |-> MaxChunks * 70000]
ChunkSamples(k) == <<k * Metadata.chunk_duration_ms,
                     k * Metadata.chunk_duration_ms + 35000>>
\* wall-clock readings of the animation frames: at most MaxTicks frames
MaxTicks == 2
WallTimes == {k * 100000 : k \in 1..MaxTicks}
\* at most MaxWaiters seeks are parked in the poll loop at a time
MaxWaiters == 1
\* clock specification: frames at 100 ms steps (performance.now() is
\* positive), the speeds 0.7 and 1.0, the durations handed to
\* setMatchDuration (0: unknown) and the seek targets
MaxFrames == 4
FrameTimes == {k * 100 : k \in 1..MaxFrames}
Speeds == {7, 10}
Durations == {0, 200}
ClockSeekTargets == {0, 100, 300}

\* matchData = null (match.data.service.ts:10)
NullData == [set |-> FALSE, ball |-> <<>>, players |-> <<>>]
\* a MatchDataDto object
Data(b, pl) == [set |-> TRUE, ball |-> b, players |-> pl]

Min(a, b) == IF a < b THEN a ELSE b
Abs_Signed(a) == a
Abs(a) == IF a < 0 THEN -a ELSE a

\* ------------------------------------------------------------- variables
VARIABLES
    \* MatchDataService
    matchData,        \* NullData or Data(ball samples, [player id -> samples])
    loadedChunks,     \* Set<number>
    chunkDurationMs,
    ballIdx,          \* match.ball.currentCoordIdx
    playerIdx,        \* match.players[id].currentCoordIdx
    \* MatchPlayService
    currentState, currentTime, lastFrameTime,
    playbackSpeed,    \* in tenths: 7 is the source's 0.7
    matchDurationMs,
    \* MatchPlayComponent
    compTime,         \* component.currentTime
    totalChunks, isLoadingChunk, matchTimeMs, dataLoaded,
    gfxReady,         \* match.ball.obj and the players' obj are set (setupGraphics)
    isDisposed,
    stage,            \* how far ngAfterViewInit's loading has come
    fetches,          \* chunk requests in flight
    waiters,          \* seek targets parked in the 50 ms poll loop
    \* environment and observation
    wall,             \* the latest performance.now() handed to tick
    last,             \* what the last operation did
    prev              \* the lookup before the last one (lookup specification)

storeVars == <<matchData, loadedChunks, chunkDurationMs, ballIdx, playerIdx>>
clockVars == <<currentState, currentTime, lastFrameTime, playbackSpeed, matchDurationMs>>
compVars == <<compTime, totalChunks, isLoadingChunk, matchTimeMs, dataLoaded,
              gfxReady, isDisposed, stage, fetches, waiters>>
vars == <<storeVars, clockVars, compVars, wall, last, prev>>

\* ------------------------------------------------- MatchDataService.getData

\* the threshold of the reset rule, `(timestamp - ts) > 60000`
STALE_GAP == 60000
\* the tolerance of the mismatch warning, `Math.abs(...) > 5000`
MISMATCH_TOLERANCE == 5000

\* lines 146-151 / 198-203: pull the cursor into [0, len - 1]
ClampIdx(idx, len) ==
    LET a == IF idx >= len THEN len - 1 ELSE idx
    IN  IF a < 0 THEN 0 ELSE a

\* lines 164 / 211: seeking backward or large gap
NeedsReset_NoGap(ts, t) == ts > t
NeedsReset_NoBack(ts, t) == (t - ts) > STALE_GAP
NeedsReset(ts, t) == ts > t \/ (t - ts) > STALE_GAP

\* lines 172-180 / 219-229: move forward while the sample is older than t
RECURSIVE Advance_Mut(_, _, _)
Advance_Mut(seq, i, t) ==
    IF seq[i + 1] <= t /\ i < Len(seq) - 1 THEN Advance_Mut(seq, i + 1, t) ELSE i
RECURSIVE Advance_Wrap(_, _, _)
Advance_Wrap(seq, i, t) ==
    IF seq[i + 1] < t
    THEN (IF i < Len(seq) - 1 THEN Advance_Wrap(seq, i + 1, t) ELSE 0)
    ELSE i
RECURSIVE Advance_Short(_, _, _)
Advance_Short(seq, i, t) ==
    IF seq[i + 1] < t /\ i < Len(seq) - 2 THEN Advance_Short(seq, i + 1, t) ELSE i
RECURSIVE Advance(_, _, _)
Advance(seq, i, t) ==
    IF seq[i + 1] < t /\ i < Len(seq) - 1 THEN Advance(seq, i + 1, t) ELSE i

\* lines 145-189: the ball half of getData.  found = FALSE is `return null`.
BallLookup_NoStore(ball, idx, t) ==
    LET c == ClampIdx(idx, Len(ball))
    IN  IF Len(ball) = 0
        THEN [found |-> FALSE, idx |-> c, reset |-> FALSE, from |-> c,
              res |-> -1, ts |-> -1, stale |-> FALSE]
        ELSE LET reset == NeedsReset(ball[c + 1], t)
                 from == IF reset THEN 0 ELSE c
                 i == Advance(ball, from, t)
                 r == Min(i, Len(ball) - 1)
             IN  [found |-> TRUE, idx |-> IF i = c THEN idx ELSE i,
                  reset |-> reset, from |-> from,
                  res |-> r, ts |-> ball[r + 1],
                  stale |-> Abs(ball[r + 1] - t) > MISMATCH_TOLERANCE]
BallLookup(ball, idx, t) ==
    LET c == ClampIdx(idx, Len(ball))
    IN  IF Len(ball) = 0
        THEN [found |-> FALSE, idx |-> c, reset |-> FALSE, from |-> c,
              res |-> -1, ts |-> -1, stale |-> FALSE]
        ELSE LET reset == NeedsReset(ball[c + 1], t)
                 from == IF reset THEN 0 ELSE c
                 i == Advance(ball, from, t)
                 r == Min(i, Len(ball) - 1)
             IN  [found |-> TRUE, idx |-> i, reset |-> reset, from |-> from,
                  res |-> r, ts |-> ball[r + 1],
                  stale |-> Abs(ball[r + 1] - t) > MISMATCH_TOLERANCE]

\* lines 196-242: one player's half of getData.  found = FALSE: no entry is
\* pushed to players_results (track empty).
PlayerLookup(value, idx, t) ==
    IF Len(value) = 0
    THEN [found |-> FALSE, idx |-> idx, reset |-> FALSE, from |-> idx,
          res |-> -1, ts |-> -1, stale |-> FALSE]
    ELSE LET c == ClampIdx(idx, Len(value))
             reset == NeedsReset(value[c + 1], t)
             from == IF reset THEN 0 ELSE c
             i == Advance(value, from, t)
             r == Min(i, Len(value) - 1)
         IN  [found |-> TRUE, idx |-> i, reset |-> reset, from |-> from,
              res |-> r, ts |-> value[r + 1],
              stale |-> Abs(value[r + 1] - t) > MISMATCH_TOLERANCE]

NoLookup == [found |-> FALSE, idx |-> 0, reset |-> FALSE, from |-> 0,
             res |-> -1, ts |-> -1, stale |-> FALSE]

\* the record kept of a getData call: its argument, its outcome per track
\* and the cursors before it
NoLk == [fresh |-> FALSE, t |-> -1, threw |-> FALSE, null |-> FALSE,
         ball |-> NoLookup, players |-> [p \in PlayerIds |-> NoLookup],
         preBallIdx |-> 0, prePlayerIdx |-> [p \in PlayerIds |-> 0]]

\* what is remembered of the lookup before the last one
Summary(lk) == [fresh |-> lk.fresh, t |-> lk.t,
                ballTs |-> lk.ball.ts, ballRes |-> lk.ball.res,
                playerTs |-> [p \in PlayerIds |-> lk.players[p].ts],
                playerRes |-> [p \in PlayerIds |-> lk.players[p].res]]

\* The program state as one record, so that a handler is the composition of
\* the methods it calls.  events: the notifications emitted so far by the
\* running handler; threw: an exception has escaped the call.
Cur == [matchData |-> matchData, loadedChunks |-> loadedChunks,
        chunkDurationMs |-> chunkDurationMs, ballIdx |-> ballIdx,
        playerIdx |-> playerIdx,
        currentState |-> currentState, currentTime |-> currentTime,
        lastFrameTime |-> lastFrameTime, playbackSpeed |-> playbackSpeed,
        matchDurationMs |-> matchDurationMs,
        compTime |-> compTime, totalChunks |-> totalChunks,
        isLoadingChunk |-> isLoadingChunk, matchTimeMs |-> matchTimeMs,
        dataLoaded |-> dataLoaded, gfxReady |-> gfxReady,
        isDisposed |-> isDisposed, stage |-> stage,
        fetches |-> fetches, waiters |-> waiters,
        events |-> <<>>, threw |-> FALSE, issued |-> -1, applied |-> -1,
        merged |-> -1, lk |-> NoLk]

\* lines 144-247: getData(timestamp).  With matchData null the first
\* dereference raises a TypeError before anything is written.  An empty ball
\* track is `return null`.  A track of the payload is looked up only for a
\* player of the roster, and the roster's other cursors stay as they are.
GetData(s, t) ==
    LET rec(threw, null, b, pl) ==
            [fresh |-> TRUE, t |-> t, threw |-> threw, null |-> null,
             ball |-> b, players |-> pl,
             preBallIdx |-> s.ballIdx, prePlayerIdx |-> s.playerIdx]
        none == [p \in PlayerIds |-> NoLookup]
    IN  IF ~s.matchData.set
        THEN [s EXCEPT !.threw = TRUE, !.lk = rec(TRUE, FALSE, NoLookup, none)]
        ELSE LET b == BallLookup(s.matchData.ball, s.ballIdx, t)
                 pl == [p \in PlayerIds |->
                          IF p \in DOMAIN s.matchData.players
                          THEN PlayerLookup(s.matchData.players[p], s.playerIdx[p], t)
                          ELSE [NoLookup EXCEPT !.idx = s.playerIdx[p]]]
             IN  IF ~b.found
                 THEN [s EXCEPT !.ballIdx = b.idx, !.lk = rec(FALSE, TRUE, b, none)]
                 ELSE [s EXCEPT !.ballIdx = b.idx,
                                !.playerIdx = [p \in PlayerIds |-> pl[p].idx],
                                !.lk = rec(FALSE, FALSE, b, pl)]

\* lines 79-115: refreshData(timestamp).  After a lookup that returned data
\* the positions are written to the graphics objects; before setupGraphics
\* has set them, match.ball.obj is null and the write raises a TypeError.
RefreshData(s, t) ==
    LET g == GetData(s, t)
    IN  IF g.threw \/ g.lk.null THEN g
        ELSE IF ~g.gfxReady THEN [g EXCEPT !.threw = TRUE]
        ELSE g

\* ------------------------------------------- MatchDataService, chunk side
\* line 23-25
SetMatchData(s, data) == [s EXCEPT !.matchData = data]

\* `array.push(...more)`; when more is the array itself it is doubled
Push(seq, more) == seq \o more

\* lines 27-53: mergeMatchData(chunkData, chunkNumber).  aliased: chunkData
\* is the very object matchData refers to (loadChunkedMatchData passes the
\* first chunk to setMatchData and then to mergeMatchData).
MergeMatchData_Evict(s, chunkData, chunkNumber) ==
    IF ~s.matchData.set
    THEN [s EXCEPT !.matchData = chunkData,
                   !.loadedChunks = {chunkNumber},
                   !.merged = chunkNumber]
    ELSE LET old == s.matchData
             ball == IF Len(chunkData.ball) > 0
                     THEN Push(old.ball, chunkData.ball) ELSE old.ball
             ids == DOMAIN old.players \cup DOMAIN chunkData.players
             players == [p \in ids |->
                           IF p \notin DOMAIN chunkData.players THEN old.players[p]
                           ELSE IF p \in DOMAIN old.players
                                THEN Push(old.players[p], chunkData.players[p])
                                ELSE chunkData.players[p]]
         IN  [s EXCEPT !.matchData = Data(ball, players),
                       !.loadedChunks = {chunkNumber},
                       !.merged = chunkNumber]
MergeMatchData_ResetsCursor(s, chunkData, chunkNumber) ==
    [MergeMatchData_Evict(s, chunkData, chunkNumber) EXCEPT
        !.loadedChunks = s.loadedChunks \cup {chunkNumber},
        !.ballIdx = 0]
MergeMatchData(s, chunkData, chunkNumber) ==
    IF ~s.matchData.set
    THEN [s EXCEPT !.matchData = chunkData,
                   !.loadedChunks = @ \cup {chunkNumber},
                   !.merged = chunkNumber]
    ELSE LET old == s.matchData
             ball == IF Len(chunkData.ball) > 0
                     THEN Push(old.ball, chunkData.ball) ELSE old.ball
             ids == DOMAIN old.players \cup DOMAIN chunkData.players
             players == [p \in ids |->
                           IF p \notin DOMAIN chunkData.players THEN old.players[p]
                           ELSE IF p \in DOMAIN old.players
                                THEN Push(old.players[p], chunkData.players[p])
                                ELSE chunkData.players[p]]
         IN  [s EXCEPT !.matchData = Data(ball, players),
                       !.loadedChunks = @ \cup {chunkNumber},
                       !.merged = chunkNumber]

\* lines 59-62
GetChunkNumberForTime_Round(s, timestamp) ==
    IF s.chunkDurationMs = 0 THEN 0
    ELSE (2 * timestamp + s.chunkDurationMs) \div (2 * s.chunkDurationMs)
GetChunkNumberForTime(s, timestamp) ==
    IF s.chunkDurationMs = 0 THEN 0 ELSE timestamp \div s.chunkDurationMs

\* lines 64-66
IsChunkLoaded(s, chunkNumber) == chunkNumber \in s.loadedChunks

\* lines 68-72
ResetStore(s) ==
    [s EXCEPT !.loadedChunks = {}, !.chunkDurationMs = 0,
              !.matchData = NullData]

\* ------------------------------------------------------- MatchPlayService
\* notifications: timeChanged.next(v) and matchEvents.next(v)
TimeEvent(v) == [kind |-> "time", val |-> v, st |-> "-"]
StateEvent(v) == [kind |-> "state", val |-> -1, st |-> v]

Emit(s, e) == [s EXCEPT !.events = Append(@, e)]

\* match.service.ts lines 361-413, the synchronous part of
\* loadChunkIfNeeded(timestamp): "done" is Promise.resolve(), "wait" is the
\* promise of the poll loop, "fetch" marks the component as loading and
\* sends the request.  owner is the seek target that awaits the promise, or
\* -1 for the call of the timeChanged subscription, which awaits nothing.
LoadChunkIfNeeded_NoRange(s, timestamp, owner) ==
    LET chunkNumber == GetChunkNumberForTime(s, timestamp)
    IN  IF IsChunkLoaded(s, chunkNumber) THEN [how |-> "done", s |-> s]
        ELSE IF s.isLoadingChunk
             THEN [how |-> "wait",
                   s |-> IF owner = -1 THEN s
                         ELSE [s EXCEPT !.waiters = @ \cup {owner}]]
        ELSE [how |-> "fetch",
              s |-> [s EXCEPT !.isLoadingChunk = TRUE,
                              !.issued = chunkNumber,
                              !.fetches = @ \cup {[chunk |-> chunkNumber,
                                                   owner |-> owner,
                                                   initial |-> FALSE]}]]
LoadChunkIfNeeded(s, timestamp, owner) ==
    LET chunkNumber == GetChunkNumberForTime(s, timestamp)
    IN  IF IsChunkLoaded(s, chunkNumber) THEN [how |-> "done", s |-> s]
        ELSE IF chunkNumber < 0 \/ chunkNumber >= s.totalChunks
             THEN [how |-> "done", s |-> s]
        ELSE IF s.isLoadingChunk
             THEN [how |-> "wait",
                   s |-> IF owner = -1 THEN s
                         ELSE [s EXCEPT !.waiters = @ \cup {owner}]]
        ELSE [how |-> "fetch",
              s |-> [s EXCEPT !.isLoadingChunk = TRUE,
                              !.issued = chunkNumber,
                              !.fetches = @ \cup {[chunk |-> chunkNumber,
                                                   owner |-> owner,
                                                   initial |-> FALSE]}]]

\* match.service.ts lines 186-201: the component's timeChanged subscription
OnTimeChanged_NoLoad(s, time) == [s EXCEPT !.compTime = time]
OnTimeChanged(s, time) ==
    LET a == [s EXCEPT !.compTime = time]
    IN  IF a.totalChunks > 0 THEN LoadChunkIfNeeded(a, time, -1).s ELSE a

\* timeChanged.next(v): the subscription runs synchronously
NextTime(s, v) == OnTimeChanged(Emit(s, TimeEvent(v)), v)

\* lines 67-70
Stop(s) == Emit([s EXCEPT !.currentState = "Ended"], StateEvent("Ended"))

\* lines 44-55
IncrementTime_Gt(s, deltaTime) ==
    LET a == [s EXCEPT !.currentTime = @ + deltaTime]
        b == IF a.matchDurationMs > 0 /\ a.currentTime > a.matchDurationMs
             THEN Stop([a EXCEPT !.currentTime = a.matchDurationMs])
             ELSE a
    IN  NextTime(b, b.currentTime)
IncrementTime_NoClamp(s, deltaTime) ==
    LET a == [s EXCEPT !.currentTime = @ + deltaTime]
        b == IF a.matchDurationMs > 0 /\ a.currentTime >= a.matchDurationMs
             THEN Stop(a)
             ELSE a
    IN  NextTime(b, b.currentTime)
IncrementTime(s, deltaTime) ==
    LET a == [s EXCEPT !.currentTime = @ + deltaTime]
        b == IF a.matchDurationMs > 0 /\ a.currentTime >= a.matchDurationMs
             THEN Stop([a EXCEPT !.currentTime = a.matchDurationMs])
             ELSE a
    IN  NextTime(b, b.currentTime)

\* the product `(currentTime - lastFrameTime) * playbackSpeed`, the speed
\* being kept in tenths
Scale_NoSpeed(elapsed, speed) == elapsed
Scale(elapsed, speed) == (elapsed * speed) \div 10

\* lines 29-42
TickOn_Always(s, now) ==
    IF s.lastFrameTime = 0
    THEN [s EXCEPT !.lastFrameTime = now]
    ELSE LET deltaTime == Scale(now - s.lastFrameTime, s.playbackSpeed)
             a == IncrementTime([s EXCEPT !.lastFrameTime = now], deltaTime)
         IN  RefreshData(a, a.currentTime)
TickOn_Blocking(s, now) ==
    IF s.currentState = "InProcess" /\ ~s.isLoadingChunk
    THEN IF s.lastFrameTime = 0
         THEN [s EXCEPT !.lastFrameTime = now]
         ELSE LET deltaTime == Scale(now - s.lastFrameTime, s.playbackSpeed)
                  a == IncrementTime([s EXCEPT !.lastFrameTime = now], deltaTime)
              IN  RefreshData(a, a.currentTime)
    ELSE s
TickOn(s, now) ==
    IF s.currentState = "InProcess"
    THEN IF s.lastFrameTime = 0
         THEN [s EXCEPT !.lastFrameTime = now]
         ELSE LET deltaTime == Scale(now - s.lastFrameTime, s.playbackSpeed)
                  a == IncrementTime([s EXCEPT !.lastFrameTime = now], deltaTime)
              IN  RefreshData(a, a.currentTime)
    ELSE s

\* lines 57-60
StartMatch(s) == Emit([s EXCEPT !.currentState = "InProcess"], StateEvent("InProcess"))

\* lines 62-65
PauseOn(s) == Emit([s EXCEPT !.currentState = "Paused"], StateEvent("Paused"))

\* lines 72-75
ResetClock(s) == [s EXCEPT !.currentTime = 0, !.lastFrameTime = 0]

\* lines 81-95: an exception escaping refreshData leaves the state as it was
SeekToTime(s, timeMs) ==
    LET shouldPlay == s.currentState # "Paused"
        a == NextTime([s EXCEPT !.currentTime = timeMs, !.lastFrameTime = 0,
                                !.applied = timeMs], timeMs)
        b == RefreshData(a, a.currentTime)
    IN  IF b.threw THEN b
        ELSE IF shouldPlay
             THEN Emit([b EXCEPT !.currentState = "InProcess"], StateEvent("InProcess"))
        ELSE b

\* --------------------------------------------------------------- session
\* the payload the server returns for chunk k, and the whole data set
ChunkPayload(k) == [set |-> TRUE, ball |-> ChunkSamples(k),
                    players |-> [p \in PlayerIds |-> ChunkSamples(k)]]

RECURSIVE Concat(_)
Concat(k) == IF k = 0 THEN ChunkSamples(0) ELSE Concat(k - 1) \o ChunkSamples(k)

FullPayload == [set |-> TRUE, ball |-> Concat(MaxChunks - 1),
                players |-> [p \in PlayerIds |-> Concat(MaxChunks - 1)]]

\* the times a click on the time bar can ask for (percentage * matchTimeMs):
\* the middle of every chunk and the very end
SeekTargets(total) ==
    {t \in {k * Metadata.chunk_duration_ms + 35000 : k \in 0..(MaxChunks - 1)} : t <= total}
        \cup {total}

\* the observation of an operation: the state it started from, and what the
\* handler did
Obs(op, arg, s) ==
    [op |-> op, arg |-> arg, events |-> s.events, threw |-> s.threw,
     issued |-> s.issued, applied |-> s.applied, merged |-> s.merged,
     lk |-> s.lk,
     pre |-> [currentState |-> currentState, currentTime |-> currentTime,
              lastFrameTime |-> lastFrameTime],
     prevOp |-> last.op, prevFrom |-> last.pre.currentState]

NoObs ==
    [op |-> "none", arg |-> -1, events |-> <<>>, threw |-> FALSE,
     issued |-> -1, applied |-> -1, merged |-> -1, lk |-> NoLk,
     pre |-> [currentState |-> "None", currentTime |-> 0, lastFrameTime |-> 0],
     prevOp |-> "none", prevFrom |-> "None"]

\* the handler ran from the current state to s
Commit(op, arg, s) ==
    /\ matchData' = s.matchData
    /\ loadedChunks' = s.loadedChunks
    /\ chunkDurationMs' = s.chunkDurationMs
    /\ ballIdx' = s.ballIdx
    /\ playerIdx' = s.playerIdx
    /\ currentState' = s.currentState
    /\ currentTime' = s.currentTime
    /\ lastFrameTime' = s.lastFrameTime
    /\ playbackSpeed' = s.playbackSpeed
    /\ matchDurationMs' = s.matchDurationMs
    /\ compTime' = s.compTime
    /\ totalChunks' = s.totalChunks
    /\ isLoadingChunk' = s.isLoadingChunk
    /\ matchTimeMs' = s.matchTimeMs
    /\ dataLoaded' = s.dataLoaded
    /\ gfxReady' = s.gfxReady
    /\ isDisposed' = s.isDisposed
    /\ stage' = s.stage
    /\ fetches' = s.fetches
    /\ waiters' = s.waiters
    /\ last' = Obs(op, arg, s)
    /\ prev' = prev

\* the services and the component as constructed (match.play.service.ts
\* lines 9-20, match.data.service.ts lines 9-17, match.service.ts lines
\* 149-175), ngAfterViewInit having sent the metadata request
Init ==
    /\ matchData = NullData /\ loadedChunks = {} /\ chunkDurationMs = 0
    /\ ballIdx = 0 /\ playerIdx = [p \in PlayerIds |-> 0]
    /\ currentState = "None" /\ currentTime = 0 /\ lastFrameTime = 0
    /\ playbackSpeed = 7 /\ matchDurationMs = 0
    /\ compTime = 0 /\ totalChunks = 0 /\ isLoadingChunk = FALSE
    /\ matchTimeMs = -1 /\ dataLoaded = FALSE /\ gfxReady = FALSE
    /\ isDisposed = FALSE /\ stage = "metadata"
    /\ fetches = {} /\ waiters = {}
    /\ wall = 0 /\ last = NoObs /\ prev = Summary(NoLk)

\* match.service.ts lines 289-304: the metadata arrives; lines 319-321: the
\* request for chunk 0 is sent without touching isLoadingChunk
MetadataLoaded ==
    /\ stage = "metadata"
    /\ LET a == [Cur EXCEPT !.matchTimeMs = Metadata.total_duration_ms,
                            !.totalChunks = Metadata.chunk_count,
                            !.chunkDurationMs = Metadata.chunk_duration_ms,
                            !.stage = "chunk0",
                            !.issued = 0,
                            !.fetches = @ \cup {[chunk |-> 0, owner |-> -1,
                                                 initial |-> TRUE]}]
       IN  Commit("metadata", -1, a)
    /\ UNCHANGED wall

\* lines 304-312: no metadata for this match, the full data set is requested
MetadataFailed ==
    /\ stage = "metadata"
    /\ Commit("metadataFailed", -1, [Cur EXCEPT !.stage = "fulldata"])
    /\ UNCHANGED wall

\* lines 333-356, the synchronous head of initializeMatch
InitializeMatch(s, data) ==
    IF s.matchTimeMs <= 0 /\ Len(data.ball) > 0
    THEN [s EXCEPT !.matchTimeMs = data.ball[Len(data.ball)], !.stage = "graphics"]
    ELSE [s EXCEPT !.stage = "graphics"]

\* lines 312-316
FullDataLoaded ==
    /\ stage = "fulldata"
    /\ LET a == SetMatchData([Cur EXCEPT !.dataLoaded = TRUE], FullPayload)
       IN  Commit("fullData", -1, InitializeMatch(a, FullPayload))
    /\ UNCHANGED wall

\* lines 321-328: chunk 0 arrives; the same object goes to setMatchData and
\* to mergeMatchData
InitialChunkLoaded ==
    /\ \E f \in fetches :
          /\ f.initial
          /\ LET a == SetMatchData([Cur EXCEPT !.dataLoaded = TRUE,
                                               !.fetches = @ \ {f}],
                                   ChunkPayload(0))
                 b == MergeMatchData(a, a.matchData, 0)
             IN  Commit("initialChunk", 0, InitializeMatch(b, ChunkPayload(0)))
    /\ UNCHANGED wall

\* the request for chunk 0 or for the full data set fails: the subscription
\* has no error handler and loading stops here
InitialLoadFailed ==
    /\ \/ stage = "fulldata" /\ Commit("loadFailed", -1, [Cur EXCEPT !.stage = "failed"])
       \/ \E f \in fetches :
             /\ f.initial
             /\ Commit("loadFailed", 0, [Cur EXCEPT !.stage = "failed",
                                                    !.fetches = @ \ {f}])
    /\ UNCHANGED wall

\* lines 357-358 with 427-461 and 255-279: initGraphics adds the ticker
\* callback, setupGraphics sets the graphics objects and starts the match
GraphicsReady ==
    /\ stage = "graphics"
    /\ Commit("graphicsReady", -1,
              StartMatch([Cur EXCEPT !.gfxReady = TRUE, !.stage = "ready"]))
    /\ UNCHANGED wall

\* match.service.ts lines 451-458: a frame of the ticker
Tick(now) ==
    /\ stage = "ready" /\ ~isDisposed
    /\ now > wall
    /\ wall' = now
    /\ Commit("tick", now, TickOn(Cur, now))

\* lines 767-804: a click or drag on the time bar asks for newTime.  The
\* continuation after `await` runs in the same turn when the promise is
\* already resolved.
Seek(newTime) ==
    /\ ~isDisposed
    /\ matchTimeMs > 0
    /\ newTime \in SeekTargets(matchTimeMs)
    /\ LET r == LoadChunkIfNeeded(Cur, newTime, newTime)
       IN  /\ Cardinality(r.s.waiters) <= MaxWaiters
           /\ Commit("seek", newTime,
                     IF r.how = "done" THEN SeekToTime(r.s, newTime) ELSE r.s)
    /\ UNCHANGED wall

\* lines 391-405: the response of a chunk request.  An exception escaping
\* refreshData leaves the promise unsettled; otherwise resolve() lets the
\* seek that awaits it go on to seekToTime.
ChunkLoaded_AlwaysRefresh ==
    /\ \E f \in fetches :
          /\ ~f.initial
          /\ LET a == MergeMatchData([Cur EXCEPT !.fetches = @ \ {f}],
                                     ChunkPayload(f.chunk), f.chunk)
                 b == [a EXCEPT !.isLoadingChunk = FALSE]
                 c == RefreshData(b, b.compTime)
             IN  Commit("chunkLoaded", f.chunk,
                        IF c.threw \/ f.owner = -1 THEN c ELSE SeekToTime(c, f.owner))
    /\ UNCHANGED wall
ChunkLoaded ==
    /\ \E f \in fetches :
          /\ ~f.initial
          /\ LET a == MergeMatchData([Cur EXCEPT !.fetches = @ \ {f}],
                                     ChunkPayload(f.chunk), f.chunk)
                 b == [a EXCEPT !.isLoadingChunk = FALSE]
                 currentChunk == GetChunkNumberForTime(b, b.compTime)
                 c == IF currentChunk = f.chunk THEN RefreshData(b, b.compTime) ELSE b
             IN  Commit("chunkLoaded", f.chunk,
                        IF c.threw \/ f.owner = -1 THEN c ELSE SeekToTime(c, f.owner))
    /\ UNCHANGED wall

\* lines 406-410: the request fails and the promise is rejected
ChunkFailed_AppliesSeek ==
    /\ \E f \in fetches :
          /\ ~f.initial
          /\ LET a == [Cur EXCEPT !.fetches = @ \ {f}, !.isLoadingChunk = FALSE]
             IN  Commit("chunkFailed", f.chunk,
                        IF f.owner = -1 THEN a ELSE SeekToTime(a, f.owner))
    /\ UNCHANGED wall
ChunkFailed_KeepsMarker ==
    /\ \E f \in fetches :
          /\ ~f.initial
          /\ Commit("chunkFailed", f.chunk, [Cur EXCEPT !.fetches = @ \ {f}])
    /\ UNCHANGED wall
ChunkFailed ==
    /\ \E f \in fetches :
          /\ ~f.initial
          /\ Commit("chunkFailed", f.chunk,
                    [Cur EXCEPT !.fetches = @ \ {f}, !.isLoadingChunk = FALSE])
    /\ UNCHANGED wall

\* lines 376-383: the poll loop sees isLoadingChunk false and resolves; the
\* seek that awaited it goes on to seekToTime
WaiterResume ==
    /\ ~isLoadingChunk
    /\ \E t \in waiters :
          Commit("waiterResume", t, SeekToTime([Cur EXCEPT !.waiters = @ \ {t}], t))
    /\ UNCHANGED wall

\* lines 806-811: ngOnDestroy
Destroy ==
    /\ ~isDisposed
    /\ Commit("destroy", -1, [ResetStore(ResetClock(Cur)) EXCEPT !.isDisposed = TRUE])
    /\ UNCHANGED wall

Next ==
    \/ MetadataLoaded
    \/ MetadataFailed
    \/ FullDataLoaded
    \/ InitialChunkLoaded
    \/ InitialLoadFailed
    \/ GraphicsReady
    \/ \E now \in WallTimes : Tick(now)
    \/ \E t \in SeekTargets(Metadata.total_duration_ms) : Seek(t)
    \/ ChunkLoaded
    \/ ChunkFailed
    \/ WaiterResume
    \/ Destroy

Spec == Init /\ [][Next]_vars

\* --------------------------------------------------- lookup specification
\* Tracks of at most MaxLen samples in non-decreasing timestamp order.
RECURSIVE OrderedTracks(_)
OrderedTracks(n) ==
    IF n = 0 THEN {<<>>}
    ELSE LET shorter == OrderedTracks(n - 1)
         IN  shorter \cup
             {Append(s, ts) : s \in {x \in shorter : Len(x) = n - 1}, ts \in SampleTimes}

IsOrdered(s) == \A i \in 1..(Len(s) - 1) : s[i] <= s[i + 1]

Tracks == {s \in OrderedTracks(MaxLen) : IsOrdered(s)}

\* a store holding an arbitrary ordered track for the ball and for the player
\* (sampled at the same instants), with arbitrary and independent cursors;
\* the graphics are set up, the clock and the component are at rest
InitResolve ==
    /\ \E b \in Tracks : matchData = Data(b, [p \in PlayerIds |-> b])
    /\ loadedChunks = {} /\ chunkDurationMs = 0
    /\ ballIdx \in -1..(MaxLen + 1)
    /\ playerIdx \in [PlayerIds -> -1..(MaxLen + 1)]
    /\ currentState = "None" /\ currentTime = 0 /\ lastFrameTime = 0
    /\ playbackSpeed = 7 /\ matchDurationMs = 0
    /\ compTime = 0 /\ totalChunks = 0 /\ isLoadingChunk = FALSE
    /\ matchTimeMs = -1 /\ dataLoaded = TRUE /\ gfxReady = TRUE
    /\ isDisposed = FALSE /\ stage = "lookup"
    /\ fetches = {} /\ waiters = {}
    /\ wall = 0 /\ last = NoObs /\ prev = Summary(NoLk)

\* getData(t), called as refreshData does (match.data.service.ts:80)
Resolve(t) ==
    /\ LET r == GetData(Cur, t)
       IN  /\ ballIdx' = r.ballIdx
           /\ playerIdx' = r.playerIdx
           /\ last' = Obs("getData", t, r)
    /\ prev' = Summary(last.lk)
    /\ UNCHANGED <<matchData, loadedChunks, chunkDurationMs, clockVars, compVars, wall>>

NextResolve == \E t \in QueryTimes : Resolve(t)

SpecResolve == InitResolve /\ [][NextResolve]_vars

\* ---------------------------------------------------- store specification
\* MatchDataService on its own: chunks merged in any order, each carrying
\* tracks for none, one or two player ids, and lookups in between.
\* Player 1 is on the roster (match.players); player 2 is not.
PayloadIdSets == {{}, PlayerIds, PlayerIds \cup {2}}

\* the MatchDataDto of chunk k carrying tracks for the players ids
StorePayload(k, ids) ==
    [set |-> TRUE, ball |-> ChunkSamples(k),
     players |-> [p \in ids |-> ChunkSamples(k)]]

\* the service as constructed, setChunkDuration called, graphics set up
InitStore ==
    /\ matchData = NullData /\ loadedChunks = {}
    /\ chunkDurationMs = Metadata.chunk_duration_ms
    /\ ballIdx = 0 /\ playerIdx = [p \in PlayerIds |-> 0]
    /\ currentState = "None" /\ currentTime = 0 /\ lastFrameTime = 0
    /\ playbackSpeed = 7 /\ matchDurationMs = 0
    /\ compTime = 0 /\ totalChunks = Metadata.chunk_count /\ isLoadingChunk = FALSE
    /\ matchTimeMs = Metadata.total_duration_ms /\ dataLoaded = FALSE /\ gfxReady = TRUE
    /\ isDisposed = FALSE /\ stage = "store"
    /\ fetches = {} /\ waiters = {}
    /\ wall = 0 /\ last = NoObs /\ prev = Summary(NoLk)

\* mergeMatchData(chunkData, chunkNumber) for a chunk not merged yet
StoreMerge(k, ids) ==
    /\ k \notin loadedChunks
    /\ Commit("merge", [chunk |-> k, ids |-> ids],
              MergeMatchData(Cur, StorePayload(k, ids), k))
    /\ UNCHANGED wall

\* getData(t) on the data merged so far
StoreResolve(t) ==
    /\ matchData.set
    /\ Commit("getData", t, GetData(Cur, t))
    /\ UNCHANGED wall

\* reset()
StoreReset ==
    /\ matchData.set
    /\ Commit("reset", -1, ResetStore(Cur))
    /\ UNCHANGED wall

NextStore ==
    \/ \E k \in 0..(MaxChunks - 1), ids \in PayloadIdSets : StoreMerge(k, ids)
    \/ \E t \in SeekTargets(Metadata.total_duration_ms) : StoreResolve(t)
    \/ StoreReset

SpecStore == InitStore /\ [][NextStore]_vars

\* ----------------------------------------------- projection specification
\* match.data.service.ts lines 117-142: translateToField(x, y, z).  The
\* scale factors are the fractions (width - 100 - 2 * 20) / 840 and
\* (height - 2 * 70) / 545; to stay in the integers the result is kept as
\* x840 = 840 * x and y545 = 545 * y.
FIELD_WIDTH == 840
FIELD_HEIGHT == 545

Max(a, b) == IF a > b THEN a ELSE b

TranslateToField_NoClamp(width, height, x, y, z) ==
    [x840 |-> (20 + 42) * FIELD_WIDTH + x * ((width - 100) - 2 * 20),
     y545 |-> (70 - 10) * FIELD_HEIGHT + y * (height - 2 * 70),
     z |-> z]
TranslateToField(width, height, x, y, z) ==
    LET clampedX == Max(0, Min(FIELD_WIDTH, x))
        clampedY == Max(0, Min(FIELD_HEIGHT, y))
    IN  [x840 |-> (20 + 42) * FIELD_WIDTH + clampedX * ((width - 100) - 2 * 20),
         y545 |-> (70 - 10) * FIELD_HEIGHT + clampedY * (height - 2 * 70),
         z |-> z]

\* the resolutions handed to setResolution and the coordinates projected
Resolutions == {<<1400, 950>>, <<1000, 700>>}
FieldXs == {-50, -1, 0, 420, 840, 841, 900}
FieldYs == {-10, 0, 272, 545, 600}
FieldZs == {0, 4}

\* the service after setResolution(width, height); prev holds the
\* resolution and the last call of translateToField with its result
InitField ==
    /\ matchData = NullData /\ loadedChunks = {} /\ chunkDurationMs = 0
    /\ ballIdx = 0 /\ playerIdx = [p \in PlayerIds |-> 0]
    /\ currentState = "None" /\ currentTime = 0 /\ lastFrameTime = 0
    /\ playbackSpeed = 7 /\ matchDurationMs = 0
    /\ compTime = 0 /\ totalChunks = 0 /\ isLoadingChunk = FALSE
    /\ matchTimeMs = -1 /\ dataLoaded = FALSE /\ gfxReady = FALSE
    /\ isDisposed = FALSE /\ stage = "field"
    /\ fetches = {} /\ waiters = {}
    /\ wall = 0 /\ last = NoObs
    /\ \E r \in Resolutions :
          prev = [width |-> r[1], height |-> r[2], called |-> FALSE,
                  x |-> 0, y |-> 0, z |-> 0,
                  out |-> [x840 |-> 0, y545 |-> 0, z |-> 0]]

Translate(x, y, z) ==
    /\ prev' = [prev EXCEPT !.called = TRUE, !.x = x, !.y = y, !.z = z,
                            !.out = TranslateToField(prev.width, prev.height, x, y, z)]
    /\ UNCHANGED <<storeVars, clockVars, compVars, wall, last>>

NextField == \E x \in FieldXs, y \in FieldYs, z \in FieldZs : Translate(x, y, z)

SpecField == InitField /\ [][NextField]_vars

\* ------------------------------------------------ properties of the lookup
\* timestamps of seq at or before t / at or after t
AtOrBefore(seq, t) == {seq[i] : i \in {j \in DOMAIN seq : seq[j] <= t}}
AtOrAfter(seq, t) == {seq[i] : i \in {j \in DOMAIN seq : seq[j] >= t}}
SetMax(S) == CHOOSE x \in S : \A y \in S : y <= x
SetMin(S) == CHOOSE x \in S : \A y \in S : x <= y

\* the sample the code settles on: the earliest one not older than t, or the
\* last one when every sample is older than t
FirstAtOrAfter(seq, t) ==
    IF AtOrAfter(seq, t) = {} THEN seq[Len(seq)] ELSE SetMin(AtOrAfter(seq, t))

\* a getData call has just returned a result for the ball / for player p
BallResolved == last.lk.fresh /\ ~last.lk.threw /\ last.lk.ball.found
PlayerResolved(p) ==
    /\ last.lk.fresh /\ ~last.lk.threw /\ ~last.lk.null
    /\ p \in DOMAIN matchData.players /\ last.lk.players[p].found

AfterLookup == last.op = "getData" /\ prev.fresh

C10_GapReset ==
    /\ (BallResolved /\ AfterLookup /\ prev.ballTs >= 0
          /\ last.lk.t = prev.t + STALE_GAP + 1)
          => last.lk.ball.reset
    /\ \A p \in PlayerIds :
          (PlayerResolved(p) /\ AfterLookup /\ prev.playerTs[p] >= 0
                /\ last.lk.t = prev.t + STALE_GAP + 1)
             => last.lk.players[p].reset

\* C10 amended: a lookup at t + STALE_GAP + 1 directly after a lookup at t
\* resets the cursor to 0 before advancing exactly when the sample resolved
\* at t has a timestamp <= t or > t + STALE_GAP + 1; when that sample lies in
\* (t, t + STALE_GAP + 1] the cursor advances from its old position.
C10_GapResetAmended ==
    /\ (BallResolved /\ AfterLookup /\ prev.ballTs >= 0
          /\ last.lk.t = prev.t + STALE_GAP + 1)
          => /\ last.lk.ball.reset
                   <=> (prev.ballTs <= prev.t \/ prev.ballTs > last.lk.t)
             /\ last.lk.ball.from = IF last.lk.ball.reset THEN 0 ELSE last.lk.preBallIdx
    /\ \A p \in PlayerIds :
          (PlayerResolved(p) /\ AfterLookup /\ prev.playerTs[p] >= 0
                /\ last.lk.t = prev.t + STALE_GAP + 1)
             => /\ last.lk.players[p].reset
                      <=> (prev.playerTs[p] <= prev.t
                              \/ prev.playerTs[p] > last.lk.t)
                /\ last.lk.players[p].from
                      = IF last.lk.players[p].reset THEN 0 ELSE last.lk.prePlayerIdx[p]

\* C10 witness: the second lookup of such a pair found the cursor beyond
\* index 0 on a sample older than t, reset it and advanced again
C10_Witness ==
    /\ BallResolved /\ AfterLookup
    /\ last.lk.t = prev.t + STALE_GAP + 1
    /\ prev.ballTs <= prev.t
    /\ last.lk.preBallIdx > 0 /\ last.lk.ball.reset /\ last.lk.ball.res > 0

\* C11: over lookups at non-decreasing times on an ordered track, a lookup
\* that triggers no cursor reset resolves to an index that is not below the
\* index the lookup before it resolved to.
C11_MonotonicResolve ==
    /\ (BallResolved /\ AfterLookup /\ prev.ballRes >= 0
          /\ IsOrdered(matchData.ball)
          /\ last.lk.t >= prev.t /\ ~last.lk.ball.reset)
          => last.lk.ball.res >= prev.ballRes
    /\ \A p \in PlayerIds :
          (PlayerResolved(p) /\ AfterLookup /\ prev.playerRes[p] >= 0
                /\ IsOrdered(matchData.players[p])
                /\ last.lk.t >= prev.t /\ ~last.lk.players[p].reset)
             => last.lk.players[p].res >= prev.playerRes[p]

\* C11 witness: the second of two lookups at increasing times kept the
\* cursor (no reset) and moved on to a later sample
C11_Witness ==
    /\ BallResolved /\ AfterLookup /\ prev.ballRes >= 0
    /\ last.lk.t > prev.t /\ ~last.lk.ball.reset
    /\ last.lk.preBallIdx = prev.ballRes
    /\ last.lk.ball.res > prev.ballRes

ClockTrack == <<0, 200>>

InitClock ==
    /\ matchData = Data(ClockTrack, [p \in PlayerIds |-> ClockTrack])
    /\ loadedChunks = {} /\ chunkDurationMs = 0
    /\ ballIdx = 0 /\ playerIdx = [p \in PlayerIds |-> 0]
    /\ currentState = "None" /\ currentTime = 0 /\ lastFrameTime = 0
    /\ playbackSpeed = 7 /\ matchDurationMs = 0
    /\ compTime = 0 /\ totalChunks = 0 /\ isLoadingChunk = FALSE
    /\ matchTimeMs = 200 /\ dataLoaded = TRUE /\ gfxReady = TRUE
    /\ isDisposed = FALSE /\ stage = "clock"
    /\ fetches = {} /\ waiters = {}
    /\ wall = 0 /\ last = NoObs /\ prev = Summary(NoLk)

ClockTick(now) ==
    /\ now > wall
    /\ wall' = now
    /\ Commit("tick", now, TickOn(Cur, now))

ClockStart == Commit("start", -1, StartMatch(Cur)) /\ UNCHANGED wall

ClockPause == Commit("pause", -1, PauseOn(Cur)) /\ UNCHANGED wall

ClockStop == Commit("stop", -1, Stop(Cur)) /\ UNCHANGED wall

ClockReset == Commit("reset", -1, ResetClock(Cur)) /\ UNCHANGED wall

ClockSeek(timeMs) == Commit("seek", timeMs, SeekToTime(Cur, timeMs)) /\ UNCHANGED wall

\* match.play.service.ts lines 77-79
SetPlaybackSpeed(speed) ==
    /\ speed # playbackSpeed
    /\ Commit("setPlaybackSpeed", speed, [Cur EXCEPT !.playbackSpeed = speed])
    /\ UNCHANGED wall

\* match.play.service.ts lines 25-27
SetMatchDuration(durationMs) ==
    /\ durationMs # matchDurationMs
    /\ Commit("setMatchDuration", durationMs, [Cur EXCEPT !.matchDurationMs = durationMs])
    /\ UNCHANGED wall

NextClock ==
    \/ \E now \in FrameTimes : ClockTick(now)
    \/ ClockStart
    \/ ClockPause
    \/ ClockStop
    \/ ClockReset
    \/ \E t \in ClockSeekTargets : ClockSeek(t)
    \/ \E v \in Speeds : SetPlaybackSpeed(v)
    \/ \E d \in Durations : SetMatchDuration(d)

SpecClock == InitClock /\ [][NextClock]_vars

\* ------------------------------------------------ properties of the clock
\* the last operation was a tick that found the clock running
RunningTick == last.op = "tick" /\ last.pre.currentState = "InProcess"

\* the operation before the last one brought the clock into Running:
\* startMatch() from another state, or a seek
EnteredRunning ==
    \/ last.prevOp = "start" /\ last.prevFrom # "InProcess"
    \/ last.prevOp = "seek"

\* C5: the first tick after an entry into Running (by start() from
\* NotStarted, Paused or Ended, or by seek) leaves virtual time unchanged and
\* only captures the wall-clock reference.
C5_FirstTickCapturesOnly ==
    (RunningTick /\ EnteredRunning)
       => /\ currentTime = last.pre.currentTime
          /\ lastFrameTime = last.arg

\* C7: with the total duration D known (> 0), a tick in Running whose
\* advance brings virtual time to D or beyond leaves virtual time equal to D
\* and the state Ended.
C7_EndTransition ==
    (/\ RunningTick /\ last.pre.lastFrameTime # 0
     /\ matchDurationMs > 0
     /\ 10 * last.pre.currentTime + (last.arg - last.pre.lastFrameTime) * playbackSpeed
           >= 10 * matchDurationMs)
       => currentTime = matchDurationMs /\ currentState = "Ended"

\* C7 witness: a tick that overshot D and was clamped to it
C7_Witness ==
    /\ RunningTick /\ last.pre.lastFrameTime # 0
    /\ matchDurationMs > 0
    /\ last.pre.currentTime < matchDurationMs
    /\ 10 * last.pre.currentTime + (last.arg - last.pre.lastFrameTime) * playbackSpeed
          > 10 * matchDurationMs
    /\ currentTime = matchDurationMs /\ currentState = "Ended"

\* C8 as stated: in Running, the tick that finds no wall-clock reference
\* leaves virtual time unchanged and captures w1; the tick after it, at w2,
\* advances virtual time by exactly (w2 - w1) * speed.
C8_ClockAdvance ==
    RunningTick
       => IF last.pre.lastFrameTime = 0
          THEN currentTime = last.pre.currentTime /\ lastFrameTime = last.arg
          ELSE 10 * (currentTime - last.pre.currentTime)
                  = (last.arg - last.pre.lastFrameTime) * playbackSpeed

\* C8 amended: ... the tick after it, at w2, advances virtual time by exactly
\* (w2 - w1) * speed, unless the total duration D is known (> 0) and the
\* advance reaches it, in which case virtual time becomes D.
C8_ClockAdvanceAmended ==
    RunningTick
       => IF last.pre.lastFrameTime = 0
          THEN currentTime = last.pre.currentTime /\ lastFrameTime = last.arg
          ELSE LET sum10 == 10 * last.pre.currentTime
                              + (last.arg - last.pre.lastFrameTime) * playbackSpeed
               IN  /\ lastFrameTime = last.arg
                   /\ IF matchDurationMs > 0 /\ sum10 >= 10 * matchDurationMs
                      THEN currentTime = matchDurationMs
                      ELSE 10 * currentTime = sum10

\* C8 witness: the second of two consecutive ticks of a clock started from
\* rest, at speed 0.7, advanced virtual time from 0 by 0.7 * (w2 - w1)
C8_Witness ==
    /\ RunningTick /\ last.prevOp = "tick" /\ last.prevFrom = "InProcess"
    /\ last.pre.currentTime = 0 /\ last.pre.lastFrameTime # 0
    /\ playbackSpeed = 7
    /\ currentTime > 0
    /\ 10 * currentTime = 7 * (last.arg - last.pre.lastFrameTime)

\* ---------------------------------------------- properties of the session
\* the chunk id a time falls into is one the match has
InRange(t) ==
    /\ GetChunkNumberForTime(Cur, t) >= 0
    /\ GetChunkNumberForTime(Cur, t) < totalChunks

\* C2: at most one chunk request is in flight, and never two for the same
\* chunk id, the request for chunk 0 sent by the initial load included.
C2_SingleFlight ==
    /\ Cardinality(fetches) <= 1
    /\ \A f, g \in fetches : f.chunk = g.chunk => f = g

\* C3: when a seek to an in-range time is applied to the clock during
\* playback, the chunk covering that time is loaded.
C3_SeekAfterLoad ==
    (/\ stage = "ready" /\ ~isDisposed
     /\ last.applied >= 0 /\ InRange(last.applied))
       => IsChunkLoaded(Cur, GetChunkNumberForTime(Cur, last.applied))

\* C4: every track of the store is in non-decreasing timestamp order.
C4_TracksOrdered ==
    matchData.set
       => /\ IsOrdered(matchData.ball)
          /\ \A p \in DOMAIN matchData.players : IsOrdered(matchData.players[p])

\* C6: with the match data present, seekToTime(t) leaves virtual time equal
\* to t and the wall-clock reference cleared; the state is Paused if it was
\* Paused before the call and Running otherwise.
C6_SeekState ==
    (matchData.set /\ ~isDisposed /\ last.applied >= 0)
       => /\ currentTime = last.applied
          /\ lastFrameTime = 0
          /\ currentState = IF last.pre.currentState = "Paused"
                            THEN "Paused" ELSE "InProcess"

\* C13: merging a chunk id that is already among the loaded chunks leaves
\* the ball track and every player track as they were.
C13_IdempotentMerge ==
    [][(last'.merged >= 0 /\ last'.merged \in loadedChunks /\ matchData.set)
          => matchData' = matchData]_vars

\* the times the coverage check is asked about: the start, the middle and
\* the last millisecond of every chunk
CoverTimes ==
    {k * Metadata.chunk_duration_ms + d : k \in 0..(MaxChunks - 1), d \in {0, 35000, 69999}}

\* t's chunk is reported as loaded
Covered(t) == IsChunkLoaded(Cur, GetChunkNumberForTime(Cur, t))

\* C14: with the chunk duration set, isChunkLoaded(getChunkNumberForTime(t))
\* is true right after mergeMatchData for chunk floor(t / chunkDurationMs),
\* and it turns from false to true only by the merge of that chunk.
C14_CoverageCheck ==
    [][\A t \in CoverTimes :
          /\ (chunkDurationMs' > 0 /\ last'.merged = t \div chunkDurationMs')
                => Covered(t)'
          /\ (~Covered(t) /\ Covered(t)')
                => last'.merged = GetChunkNumberForTime(Cur, t)']_vars

\* C14 witness: chunk 1 has just been merged; the last millisecond of chunk 1
\* is covered and the first millisecond of chunk 2 is not
C14_Witness ==
    /\ chunkDurationMs > 0 /\ last.merged = 1
    /\ Covered(2 * chunkDurationMs - 1)
    /\ ~Covered(2 * chunkDurationMs)

\* C15: once the session is torn down (ngOnDestroy has reset the store), a
\* response that arrives later changes nothing: no chunk is loaded and the
\* match data stays cleared.
C15_LateFetchIgnored ==
    isDisposed => (loadedChunks = {} /\ ~matchData.set)

\* C16: when a chunk request fails, the seek that awaited it is not carried
\* out, the store is as before (the chunk is not added), no new request is
\* sent, isLoadingChunk is cleared, and a loadChunkIfNeeded for a time of
\* that chunk would then send a new request.
C16_FetchFailure ==
    [][last'.op = "chunkFailed"
          => /\ loadedChunks' = loadedChunks /\ matchData' = matchData
             /\ isLoadingChunk' = FALSE
             /\ \E f \in fetches : f.chunk = last'.arg /\ fetches' = fetches \ {f}
             /\ last'.issued = -1 /\ last'.applied = -1
             /\ currentTime' = currentTime /\ currentState' = currentState
             /\ \A t \in CoverTimes :
                   (/\ GetChunkNumberForTime(Cur, t)' = last'.arg
                    /\ last'.arg \notin loadedChunks'
                    /\ last'.arg < totalChunks')
                      => /\ LoadChunkIfNeeded(Cur, t, -1)'.how = "fetch"
                         /\ LoadChunkIfNeeded(Cur, t, -1)'.s.issued = last'.arg]_vars

\* C16 witness: the request for chunk 1 has failed during playback; chunk 1
\* is not loaded, nothing is in flight and a call for a time of chunk 1
\* would send the request again
C16_Witness ==
    /\ last.op = "chunkFailed" /\ last.arg = 1
    /\ stage = "ready" /\ ~isDisposed
    /\ 1 \notin loadedChunks /\ ~isLoadingChunk /\ fetches = {}
    /\ LoadChunkIfNeeded(Cur, Metadata.chunk_duration_ms + 35000, -1).how = "fetch"

\* C17: a seek whose chunk is in range and not loaded, made while a request
\* is in flight, sends no request and is not carried out in the same step;
\* and when a parked seek is carried out after the request has completed,
\* the chunk it needs is loaded.
C17_WaitForInFlight ==
    [][/\ (/\ last'.op = "seek" /\ fetches # {}
           /\ InRange(last'.arg) /\ ~Covered(last'.arg))
             => (fetches' = fetches /\ last'.applied = -1)
       /\ (/\ last'.op = "waiterResume" /\ last'.applied >= 0
           /\ InRange(last'.applied))
             => Covered(last.applied)']_vars

\* a timeChanged notification of the last operation carried the time v
TimeNotified(v) ==
    \E i \in DOMAIN last.events :
       last.events[i].kind = "time" /\ last.events[i].val = v

\* C18: a loadChunkIfNeeded(t) made by a seek or by a tick, with t's chunk
\* loaded or outside [0, totalChunks), sends no request and leaves the
\* store and isLoadingChunk as they were; the seek goes on to seekToTime.
C18_NoFetchWhenCovered ==
    [][/\ (last'.op = "seek" /\ (Covered(last'.arg) \/ ~InRange(last'.arg)))
             => /\ fetches' = fetches /\ isLoadingChunk' = isLoadingChunk
                /\ loadedChunks' = loadedChunks /\ matchData' = matchData
                /\ last'.issued = -1
                /\ last'.applied = last'.arg
       /\ (/\ last'.op = "tick" /\ TimeNotified(currentTime)'
           /\ totalChunks > 0
           /\ (Covered(currentTime') \/ ~InRange(currentTime')))
             => /\ fetches' = fetches /\ isLoadingChunk' = isLoadingChunk
                /\ loadedChunks' = loadedChunks /\ matchData' = matchData
                /\ last'.issued = -1]_vars

\* C18 witness: a seek into chunk 1, already loaded, was carried out at once
\* and sent no request
C18_Witness ==
    /\ last.op = "seek" /\ last.applied = last.arg /\ ~last.threw
    /\ totalChunks > 0
    /\ GetChunkNumberForTime(Cur, last.arg) = 1 /\ Covered(last.arg)
    /\ last.issued = -1 /\ fetches = {}

\* C19: the response of a chunk request is merged first (the chunk is
\* loaded when the handler ends); for a request sent by playback,
\* refreshData(component.currentTime) runs if and only if that time maps to
\* the chunk just merged, and it looks the time up in the merged data; a
\* seek that awaited the request is carried out only after the merge.
C19_MergeThenRefresh ==
    [][last'.op = "chunkLoaded"
          => \E f \in fetches \ fetches' :
                /\ ~f.initial /\ f.chunk = last'.arg
                /\ last'.merged = f.chunk /\ f.chunk \in loadedChunks'
                /\ f.owner = -1
                      => /\ last'.lk.fresh
                               <=> (GetChunkNumberForTime(Cur, compTime) = f.chunk)
                         /\ last'.lk.fresh
                               => /\ last'.lk.t = compTime
                                  /\ last'.lk.ball
                                        = BallLookup(matchData'.ball, ballIdx, compTime)
                /\ (f.owner # -1 /\ last'.applied >= 0)
                      => last'.applied = f.owner]_vars

\* C19 witness: a chunk asked for by playback arrived while the component's
\* time was inside it; the display was refreshed at that time from a sample
\* of the chunk just merged
C19_Witness ==
    /\ last.op = "chunkLoaded" /\ last.applied = -1 /\ ~last.threw
    /\ last.merged >= 1
    /\ last.merged = GetChunkNumberForTime(Cur, compTime)
    /\ last.lk.fresh /\ last.lk.t = compTime
    /\ last.lk.ball.found
    /\ last.lk.ball.ts >= last.merged * chunkDurationMs

\* C20: a lookup at a time whose chunk is not loaded and which lies beyond
\* the last sample of an ordered track returns the last sample and reports
\* the result as stale (the mismatch warning is the code's only such report).
C20_ClampedIsStale ==
    /\ (BallResolved /\ IsOrdered(matchData.ball) /\ ~Covered(last.lk.t)
          /\ last.lk.t > matchData.ball[Len(matchData.ball)])
          => /\ last.lk.ball.res = Len(matchData.ball) - 1
             /\ last.lk.ball.stale
    /\ \A p \in PlayerIds :
          (PlayerResolved(p) /\ IsOrdered(matchData.players[p])
                /\ ~Covered(last.lk.t)
                /\ last.lk.t > matchData.players[p][Len(matchData.players[p])])
             => /\ last.lk.players[p].res = Len(matchData.players[p]) - 1
                /\ last.lk.players[p].stale

\* the timestamps of seq inside chunk k's window that are at or after t
InChunkAtOrAfter(seq, k, t) ==
    {seq[i] : i \in {j \in DOMAIN seq :
                        /\ seq[j] >= t
                        /\ seq[j] >= k * chunkDurationMs
                        /\ seq[j] < (k + 1) * chunkDurationMs}}

\* C21: once the chunk covering t is loaded and holds a sample at or after
\* t, a lookup at t returns a sample whose timestamp lies in that chunk's
\* window, in whatever order the chunks were merged during playback.
C21_ResolvesInsideChunk ==
    (/\ last.lk.fresh /\ ~last.lk.threw /\ last.lk.ball.found
     /\ chunkDurationMs > 0 /\ stage = "ready" /\ ~isDisposed
     /\ Covered(last.lk.t)
     /\ InChunkAtOrAfter(matchData.ball, GetChunkNumberForTime(Cur, last.lk.t),
                         last.lk.t) # {})
       => /\ last.lk.ball.ts >= GetChunkNumberForTime(Cur, last.lk.t) * chunkDurationMs
          /\ last.lk.ball.ts < (GetChunkNumberForTime(Cur, last.lk.t) + 1) * chunkDurationMs

\* C22: after the teardown (MatchDataService.reset() called by ngOnDestroy)
\* no chunk is loaded, the match data is dropped and the ball's cursor and
\* every player's cursor are 0.
C22_ResetClearsStore ==
    last.op = "destroy"
       => /\ loadedChunks = {} /\ ~matchData.set
          /\ ballIdx = 0
          /\ \A p \in PlayerIds : playerIdx[p] = 0

\* a matchEvents notification of the last operation carried the state v
StateNotified(v) ==
    \E i \in DOMAIN last.events :
       last.events[i].kind = "state" /\ last.events[i].st = v

\* C23: an operation of the clock that changes currentTime emits timeChanged
\* with the new time, and one that changes currentState emits matchEvents
\* with the new state.
C23_ChangesNotified ==
    [][/\ currentTime' # currentTime => TimeNotified(currentTime)'
       /\ currentState' # currentState => StateNotified(currentState)']_vars

\* C24: a tick that finds the clock in NotStarted, Paused or Ended leaves
\* the time, the state and the wall-clock reference as they were, emits
\* nothing and looks nothing up.
C24_TickOnlyInRunning ==
    (last.op = "tick" /\ last.pre.currentState # "InProcess")
       => /\ currentTime = last.pre.currentTime
          /\ currentState = last.pre.currentState
          /\ lastFrameTime = last.pre.lastFrameTime
          /\ last.events = <<>>
          /\ ~last.lk.fresh

\* C24 witness: a tick on a paused clock that holds an older wall-clock
\* reference and a time above 0 changed nothing
C24_Witness ==
    /\ last.op = "tick" /\ last.pre.currentState = "Paused"
    /\ last.pre.lastFrameTime # 0 /\ last.arg > last.pre.lastFrameTime
    /\ last.pre.currentTime > 0
    /\ currentTime = last.pre.currentTime /\ currentState = "Paused"
    /\ lastFrameTime = last.pre.lastFrameTime
    /\ last.events = <<>>

\* C25: after pause() the state is Paused exactly when it was Running or
\* Paused before the call.
C25_PauseFromRunningOnly ==
    last.op = "pause"
       => (currentState = "Paused"
              <=> last.pre.currentState \in {"InProcess", "Paused"})

\* C26: no step other than the teardown removes a chunk id from
\* loadedChunks, and a chunk id enters it only in a step that merged that
\* chunk.
C26_LoadedOnlyGrows ==
    [][/\ last'.op # "destroy" => loadedChunks \subseteq loadedChunks'
       /\ \A k \in loadedChunks' \ loadedChunks : last'.merged = k]_vars

\* C26 witness: chunk 2 has been merged before chunk 1, chunk 0 is still
\* loaded
C26_Witness ==
    /\ ~isDisposed /\ last.merged = 2
    /\ loadedChunks = {0, 2}

\* C27: in Running, a tick that has a wall-clock reference advances the time
\* by the scaled elapsed time and emits timeChanged with the new time,
\* whether or not the chunk of the new time is loaded and whether or not a
\* request is in flight.
C27_TickNeverBlocked ==
    (/\ last.op = "tick" /\ last.pre.currentState = "InProcess"
     /\ last.pre.lastFrameTime # 0 /\ matchDurationMs = 0)
       => /\ 10 * (currentTime - last.pre.currentTime)
                = (last.arg - last.pre.lastFrameTime) * playbackSpeed
          /\ lastFrameTime = last.arg
          /\ TimeNotified(currentTime)

\* C27 witness: a tick advanced the time into a chunk that is not loaded
\* while a request sent earlier was still in flight; it sent none itself
C27_Witness ==
    /\ last.op = "tick" /\ last.pre.currentState = "InProcess"
    /\ currentTime > last.pre.currentTime
    /\ TimeNotified(currentTime)
    /\ InRange(currentTime) /\ ~Covered(currentTime)
    /\ isLoadingChunk /\ fetches # {} /\ last.issued = -1

\* C29: while no metadata has arrived (totalChunks = 0, chunk duration
\* unset) every time maps to chunk 0, and neither a seek nor a tick sends a
\* chunk request.
C29_DegradedMode ==
    [][(totalChunks = 0 /\ chunkDurationMs = 0)
          => /\ \A t \in CoverTimes : GetChunkNumberForTime(Cur, t) = 0
             /\ last'.op \in {"seek", "tick"}
                   => /\ fetches' = fetches /\ last'.issued = -1
                      /\ isLoadingChunk' = FALSE]_vars

\* C29 witness: playback of a match loaded without metadata has run past
\* the first 70 s of the data with no request sent
C29_Witness ==
    /\ stage = "ready" /\ ~isDisposed
    /\ totalChunks = 0 /\ chunkDurationMs = 0
    /\ last.op = "tick" /\ currentTime > Metadata.chunk_duration_ms
    /\ last.lk.ball.found /\ last.lk.ball.ts >= currentTime
    /\ fetches = {} /\ ~isLoadingChunk

\* seq ends with the samples tail
EndsWith(seq, tail) ==
    /\ Len(seq) >= Len(tail)
    /\ \A i \in 1..Len(tail) : seq[Len(seq) - Len(tail) + i] = tail[i]

\* C28: a merge leaves a track holding the delivered samples for every
\* player id of the chunk, whether or not the id had a track before, and a
\* lookup returns a sample for every player id that has a non-empty track.
C28_LazyPlayerTrack ==
    /\ last.op = "merge"
          => \A p \in last.arg.ids :
                /\ p \in DOMAIN matchData.players
                /\ EndsWith(matchData.players[p], ChunkSamples(last.arg.chunk))
    /\ (last.op = "getData" /\ ~last.lk.threw /\ ~last.lk.null)
          => \A p \in DOMAIN matchData.players :
                Len(matchData.players[p]) > 0
                   => /\ p \in DOMAIN last.lk.players
                      /\ last.lk.players[p].found

\* the field's bounds applied to a coordinate
FieldClamp(v, hi) == IF v < 0 THEN 0 ELSE IF v > hi THEN hi ELSE v

\* C30: translateToField gives for every x outside [0, 840] and every y
\* outside [0, 545] the result it gives for the nearest boundary value.
C30_ProjectionClamp ==
    prev.called
       => prev.out = TranslateToField(prev.width, prev.height,
                                      FieldClamp(prev.x, FIELD_WIDTH),
                                      FieldClamp(prev.y, FIELD_HEIGHT), prev.z)

\* C30 witness: a point left of and below the field was projected onto the
\* field's corner (0, 545)
C30_Witness ==
    /\ prev.called /\ prev.x < 0 /\ prev.y > FIELD_HEIGHT
    /\ prev.out = TranslateToField(prev.width, prev.height, 0, FIELD_HEIGHT, prev.z)
    /\ prev.out.x840 = (20 + 42) * FIELD_WIDTH

\* C31: when the first chunk has arrived and been installed, the ball track
\* and every player track hold exactly the samples of chunk 0, each once and
\* in the payload's order, and chunk 0 is loaded.
C31_InitialLoadExact ==
    last.op = "initialChunk"
       => /\ matchData.set
          /\ matchData.ball = ChunkPayload(0).ball
          /\ matchData.players = ChunkPayload(0).players
          /\ 0 \in loadedChunks

\* C32: a seek carried out when the request it awaited completes, or when
\* the poll loop lets it go, does not replace the time of a seek that was
\* requested after it and has been carried out in the step before.
C32_SeeksInRequestOrder ==
    [][(/\ stage = "ready" /\ ~isDisposed
        /\ last.op = "seek" /\ last.applied = last.arg
        /\ last'.op \in {"chunkLoaded", "waiterResume"}
        /\ last'.applied >= 0)
          => currentTime' = last.arg]_vars

\* C34: in a session that got its total duration from the metadata,
\* playback running from tick to tick never takes the time beyond that
\* duration, and a tick that reaches it leaves the clock Ended at exactly
\* the duration.
C34_PlaybackEnds ==
    (/\ last.op = "tick" /\ last.pre.currentState = "InProcess"
     /\ last.prevOp = "tick"
     /\ totalChunks > 0 /\ matchTimeMs > 0 /\ ~isDisposed)
       => /\ currentTime <= matchTimeMs
          /\ currentTime >= matchTimeMs
                => (currentState = "Ended" /\ currentTime = matchTimeMs)

\* C35: a seek that has to request its chunk changes neither the time, the
\* state nor the wall-clock reference and emits nothing while it waits; when
\* the request fails, the same holds, isLoadingChunk is cleared and the seek
\* is never carried out.
C35_FailedSeekNotApplied ==
    [][/\ (last'.op = "seek" /\ last'.issued >= 0)
             => /\ currentTime' = currentTime /\ currentState' = currentState
                /\ lastFrameTime' = lastFrameTime /\ compTime' = compTime
                /\ last'.events = <<>> /\ last'.applied = -1
       /\ (last'.op = "chunkFailed" /\ \E f \in fetches \ fetches' : f.owner # -1)
             => /\ currentTime' = currentTime /\ currentState' = currentState
                /\ lastFrameTime' = lastFrameTime /\ compTime' = compTime
                /\ last'.events = <<>> /\ last'.applied = -1
                /\ isLoadingChunk' = FALSE
                /\ waiters' = waiters]_vars

\* C35 witness: the request of the first seek of a session has failed; the
\* clock is where setupGraphics left it and nothing is in flight
C35_Witness ==
    /\ last.op = "chunkFailed" /\ last.arg >= 1
    /\ stage = "ready" /\ ~isDisposed
    /\ currentState = "InProcess" /\ currentTime = 0 /\ compTime = 0
    /\ last.events = <<>> /\ last.applied = -1
    /\ ~isLoadingChunk /\ fetches = {}
    /\ last.arg \notin loadedChunks

\* C36: after the teardown the clock is as constructed: time 0, no
\* wall-clock reference, state NotStarted.
C36_TeardownResetsClock ==
    last.op = "destroy"
       => /\ currentTime = 0 /\ lastFrameTime = 0
          /\ currentState = "None"

\* C37: once the clock knows a duration D > 0 and its time is within
\* [0, D], no tick and no seek to a target within [0, D] takes the time
\* out of [0, D], and a tick that turns the state to Ended leaves the time
\* at exactly D.
C37_TimeWithinDuration ==
    [][(/\ matchDurationMs > 0 /\ matchDurationMs' = matchDurationMs
        /\ currentTime \in 0..matchDurationMs
        /\ last'.op = "seek" => last'.arg \in 0..matchDurationMs)
          => /\ currentTime' \in 0..matchDurationMs
             /\ (last'.op = "tick" /\ currentState # "Ended"
                   /\ currentState' = "Ended")
                   => currentTime' = matchDurationMs]_vars

\* C37 witness: playback started again at the end of the match; the tick
\* ended it once more with the time still at D
C37_Witness ==
    /\ last.op = "tick" /\ last.pre.currentState = "InProcess"
    /\ last.pre.lastFrameTime # 0
    /\ matchDurationMs > 0 /\ last.pre.currentTime = matchDurationMs
    /\ currentTime = matchDurationMs /\ currentState = "Ended"

\* C38: after a lookup on a non-empty track, whatever the cursor was
\* before, the cursor is within 0..len-1 and the sample returned is the one
\* under the cursor.
C38_CursorInRange ==
    /\ BallResolved
          => /\ ballIdx \in 0..(Len(matchData.ball) - 1)
             /\ last.lk.ball.res = ballIdx
             /\ last.lk.ball.ts = matchData.ball[ballIdx + 1]
    /\ \A p \in PlayerIds :
          PlayerResolved(p)
             => /\ playerIdx[p] \in 0..(Len(matchData.players[p]) - 1)
                /\ last.lk.players[p].res = playerIdx[p]
                /\ last.lk.players[p].ts = matchData.players[p][playerIdx[p] + 1]

\* C38 witness: the lookup found the ball's cursor outside the track and
\* left it on the sample it returned
C38_Witness ==
    /\ BallResolved
    /\ last.lk.preBallIdx \notin 0..(Len(matchData.ball) - 1)
    /\ Len(matchData.ball) >= 2
    /\ ballIdx \in 0..(Len(matchData.ball) - 1)
    /\ last.lk.ball.res = ballIdx

\* C39: mergeMatchData writes the tracks and loadedChunks only: the cursors,
\* the chunk length, the clock's time, state and wall-clock reference are as
\* before, no lookup is made and no event is emitted.
C39_MergeFrame ==
    [][last'.op = "merge"
          => /\ ballIdx' = ballIdx /\ playerIdx' = playerIdx
             /\ chunkDurationMs' = chunkDurationMs
             /\ currentTime' = currentTime /\ currentState' = currentState
             /\ lastFrameTime' = lastFrameTime
             /\ ~last'.lk.fresh /\ last'.events = <<>>
             /\ loadedChunks' = loadedChunks \cup {last'.arg.chunk}]_vars

\* C39 witness: a chunk merged onto existing tracks while the ball's cursor
\* stands on a later sample
C39_Witness ==
    /\ last.op = "merge" /\ ballIdx >= 1
    /\ Cardinality(loadedChunks) >= 2
    /\ Len(matchData.ball) >= 4
    /\ ~last.lk.fresh /\ last.events = <<>>

\* C40: the lookup reports a timestamp mismatch exactly when the returned
\* sample's timestamp and t differ by more than 5000 ms, to either side, and
\* the sample returned is the track's sample at the result index either way.
C40_StaleExactly ==
    /\ BallResolved
          => /\ last.lk.ball.stale
                   <=> \/ last.lk.ball.ts - last.lk.t > MISMATCH_TOLERANCE
                       \/ last.lk.t - last.lk.ball.ts > MISMATCH_TOLERANCE
             /\ last.lk.ball.ts = matchData.ball[last.lk.ball.res + 1]
    /\ \A p \in PlayerIds :
          PlayerResolved(p)
             => /\ last.lk.players[p].stale
                      <=> \/ last.lk.players[p].ts - last.lk.t > MISMATCH_TOLERANCE
                          \/ last.lk.t - last.lk.players[p].ts > MISMATCH_TOLERANCE
                /\ last.lk.players[p].ts
                      = matchData.players[p][last.lk.players[p].res + 1]

\* C40 witness: a sample more than 5000 ms before t, reported as a mismatch
\* and returned all the same
C40_Witness ==
    /\ BallResolved /\ last.lk.ball.stale
    /\ last.lk.t - last.lk.ball.ts > MISMATCH_TOLERANCE
    /\ last.lk.ball.ts = matchData.ball[last.lk.ball.res + 1]

\* ---------------------------------------------------------------------
\* A viewer who pauses: the chunked session without failing requests and
\* without teardown, and with MatchPlayService.pause() called on running
\* playback.  Every response arrives and the 50 ms poll timer runs: weak
\* fairness on those two handlers.
\* ---------------------------------------------------------------------

\* match.play.service.ts lines 62-65, called while playback runs
PauseUser ==
    /\ stage = "ready" /\ ~isDisposed
    /\ currentState = "InProcess"
    /\ Commit("pause", -1, PauseOn(Cur))
    /\ UNCHANGED wall

\* the session as loadChunkedMatchData, initializeMatch and setupGraphics
\* leave it when nothing else happens meanwhile: chunk 0 installed by
\* setMatchData and mergeMatchData, graphics set, startMatch() called
InitRest ==
    /\ matchData = MergeMatchData(SetMatchData([matchData |-> NullData,
                                                loadedChunks |-> {},
                                                merged |-> -1],
                                               ChunkPayload(0)),
                                  ChunkPayload(0), 0).matchData
    /\ loadedChunks = {0}
    /\ chunkDurationMs = Metadata.chunk_duration_ms
    /\ ballIdx = 0 /\ playerIdx = [p \in PlayerIds |-> 0]
    /\ currentState = "InProcess" /\ currentTime = 0 /\ lastFrameTime = 0
    /\ playbackSpeed = 7 /\ matchDurationMs = 0
    /\ compTime = 0 /\ totalChunks = Metadata.chunk_count /\ isLoadingChunk = FALSE
    /\ matchTimeMs = Metadata.total_duration_ms /\ dataLoaded = TRUE /\ gfxReady = TRUE
    /\ isDisposed = FALSE /\ stage = "ready"
    /\ fetches = {} /\ waiters = {}
    /\ wall = 0 /\ last = NoObs /\ prev = Summary(NoLk)

NextRest ==
    \/ \E now \in WallTimes : Tick(now)
    \/ PauseUser
    \/ \E t \in SeekTargets(Metadata.total_duration_ms) : Seek(t)
    \/ ChunkLoaded
    \/ WaiterResume

\* a request in flight is answered: the step ChunkLoaded seen on the set of
\* requests, which it alone makes smaller here
FetchAnswered == \E f \in fetches : ~f.initial /\ fetches' = fetches \ {f}

\* the poll timer of a parked seek finds isLoadingChunk false: the step
\* WaiterResume seen on the set of parked seeks
WaiterLetGo == ~isLoadingChunk /\ \E t \in waiters : waiters' = waiters \ {t}

SpecRest ==
    /\ InitRest /\ [][NextRest]_vars
    /\ WF_fetches(FetchAnswered) /\ WF_waiters(WaiterLetGo)

\* the last handler looked the tracks up at t, and t's chunk is loaded
ResolvedLoaded(t) ==
    /\ Covered(t)
    /\ last.lk.fresh /\ ~last.lk.threw /\ last.lk.t = t

\* C33: when every request is answered and nothing is reset, a seek carried
\* out in the Paused state to a time t of some chunk leads to a state where
\* t's chunk is loaded and the tracks have been looked up at t with the
\* chunk merged, unless a later seek has taken the time elsewhere.
C33_RestEventuallyFresh ==
    \A t \in SeekTargets(Metadata.total_duration_ms) :
       (/\ currentState = "Paused" /\ InRange(t)
        /\ last.applied = t /\ currentTime = t)
          ~> (currentTime # t \/ ResolvedLoaded(t))

\* C33 witness: paused, a seek let go by the poll loop had set the time to
\* a chunk not loaded and requested it; the chunk has arrived, was merged
\* and the tracks were looked up again at the same time
C33_Witness ==
    /\ currentState = "Paused" /\ stage = "ready"
    /\ last.op = "chunkLoaded" /\ last.prevOp = "waiterResume"
    /\ last.applied = -1
    /\ InRange(currentTime)
    /\ last.merged = GetChunkNumberForTime(Cur, currentTime)
    /\ ResolvedLoaded(currentTime)

====
